---- MODULE Spec2Model ----
(***************************************************************************)
(* Model of the mpr renderer headers:                                      *)
(*   src/inc/gpu_deriv.hpp   - Deriv, the forward-mode dual number         *)
(*   src/lib/renderable.hpp  - TileRenderer, SubtileRenderer,              *)
(*                             PixelRenderer, Renderable                   *)
(* Floats are modelled as bounded integers; the results of float division  *)
(* are exact extended rationals (den = 0 stands for +-inf and NaN).        *)
(***************************************************************************)
EXTENDS Integers, Sequences, FiniteSets, TLC

\* Range of the value field of the Derivs and of the floats that are tried.
MaxV == 2
\* Range of each partial derivative of the Derivs that are tried.
MaxD == 1

\* Number of tiles of the image (set by image_size_px at build time).
NumTiles == 2

VARIABLES
    a,          \* first Deriv operand
    b,          \* second Deriv operand
    c,          \* float operand
    op,         \* the overload that was applied, "none" before
    res,        \* what it returned
    stage,      \* where Renderable::run is in the frame
    tape,       \* Renderable::tape, shared by the three renderers
    image,      \* Renderable::image, pixel -> "unset" | "filled"
    tiles,      \* TileRenderer::tiles: filled list, active list, subtapes
    subtiles,   \* SubtileRenderer::subtiles: the same, one level down
    tileState,  \* activity state of each tile
    subState,   \* activity state of each subtile
    tilePc,     \* position of the lane of each tile
    subPc,      \* position of the lane of each subtile
    pixPc,      \* position of the lane of each pixel
    writers     \* <<array, slot, lane>>: the lane has written the slot

dvars == <<a, b, c, op, res>>
pvars == <<stage, tape, image, tiles, subtiles, tileState, subState,
           tilePc, subPc, pixPc, writers>>
vars == <<a, b, c, op, res, stage, tape, image, tiles, subtiles, tileState,
          subState, tilePc, subPc, pixPc, writers>>

----------------------------------------------------------------------------
(* float4 and Deriv, gpu_deriv.hpp:18-28 *)

make_float4(x, y, z, w) == [x |-> x, y |-> y, z |-> z, w |-> w]

DerivDefault == make_float4(0, 0, 0, 0)

DerivF_bad(f) == make_float4(f, 0, 0, 0)
DerivF(f) == make_float4(0, 0, 0, f)

Deriv4(v, ddx, ddy, ddz) == make_float4(ddx, ddy, ddz, v)

value(d) == d.w
dx(d) == d.x
dy(d) == d.y
dz(d) == d.z

----------------------------------------------------------------------------
(* float division: an exact quotient, or +-inf / NaN for a zero divisor *)

Sgn(n) == IF n > 0 THEN 1 ELSE IF n < 0 THEN 0 - 1 ELSE 0

AbsInt(n) == IF n < 0 THEN 0 - n ELSE n

RECURSIVE GCD(_, _)
GCD(m, n) == IF n = 0 THEN m ELSE GCD(n, m % n)

FDiv(n, d) ==
    IF d = 0
    THEN [num |-> Sgn(n), den |-> 0]
    ELSE LET g == GCD(AbsInt(n), AbsInt(d))
         IN  [num |-> (Sgn(d) * n) \div g, den |-> AbsInt(d) \div g]

powf2(x) == x * x

----------------------------------------------------------------------------
(* the overloads of gpu_deriv.hpp *)

Neg(p) == Deriv4(0 - value(p), 0 - dx(p), 0 - dy(p), 0 - dz(p))

AddDD(p, q) ==
    Deriv4(value(p) + value(q), dx(p) + dx(q), dy(p) + dy(q), dz(p) + dz(q))

AddDF(p, f) == Deriv4(value(p) + f, dx(p), dy(p), dz(p))

AddFD(f, p) == AddDF(p, f)

MulDD_bad(p, q) ==
    Deriv4(value(p) * value(q),
           dx(p) * value(p) + dx(q) * value(q),
           dy(p) * value(p) + dy(q) * value(q),
           dz(p) * value(p) + dz(q) * value(q))
MulDD(p, q) ==
    Deriv4(value(p) * value(q),
           dx(p) * value(q) + dx(q) * value(p),
           dy(p) * value(q) + dy(q) * value(p),
           dz(p) * value(q) + dz(q) * value(p))

MulDF(p, f) == Deriv4(value(p) * f, dx(p) * f, dy(p) * f, dz(p) * f)

MulFD(f, p) == MulDF(p, f)

DivDD(p, q) ==
    LET d == powf2(value(q))
    IN  Deriv4(FDiv(value(p), value(q)),
               FDiv(value(q) * dx(p) - value(p) * dx(q), d),
               FDiv(value(q) * dy(p) - value(p) * dy(q), d),
               FDiv(value(q) * dz(p) - value(p) * dz(q), d))

MinDD_bad(p, q) == IF value(p) < value(q) THEN p ELSE DerivF(value(q))
MinDD(p, q) == IF value(p) < value(q) THEN p ELSE q

MinDF(p, f) == IF value(p) < f THEN p ELSE DerivF(f)

MinFD(f, p) == MinDF(p, f)

MaxDD_bad(p, q) == IF value(p) > value(q) THEN p ELSE q
MaxDD(p, q) == IF value(p) >= value(q) THEN p ELSE q

MaxDF(p, f) == IF value(p) >= f THEN p ELSE DerivF(f)

MaxFD(f, p) == MaxDF(p, f)

Abs_bad(p) == IF value(p) <= 0 THEN Neg(p) ELSE p
Abs(p) == IF value(p) < 0 THEN Neg(p) ELSE p

SubDD(p, q) ==
    Deriv4(value(p) - value(q), dx(p) - dx(q), dy(p) - dy(q), dz(p) - dz(q))

SubDF(p, f) == Deriv4(value(p) - f, dx(p), dy(p), dz(p))

SubFD_bad(f, p) == Deriv4(f - value(p), dx(p), dy(p), dz(p))
SubFD(f, p) == Deriv4(f - value(p), 0 - dx(p), 0 - dy(p), 0 - dz(p))

----------------------------------------------------------------------------
(* the inputs that are tried *)

Floats == (0 - MaxV)..MaxV
Partials == (0 - 1)..MaxD
Derivs == {Deriv4(v, px, py, pz) : v \in Floats, px \in Partials,
                                   py \in Partials, pz \in Partials}

----------------------------------------------------------------------------
(* the overloads applied to the inputs *)

Apply(name, r) ==
    /\ op = "none"
    /\ op' = name
    /\ res' = r
    /\ UNCHANGED <<a, b, c>>
    /\ UNCHANGED pvars

DoMulDD == Apply("mul", MulDD(a, b))
DoDivDD == Apply("div", DivDD(a, b))
DoMinDD == Apply("min", MinDD(a, b))
DoMaxDD == Apply("max", MaxDD(a, b))
DoMinPlusMax == Apply("min+max", AddDD(MinDD(a, b), MaxDD(a, b)))

DoDefault == Apply("Deriv()", DerivDefault)
DoDerivF == Apply("Deriv(f)", DerivF(c))
DoAbs == Apply("abs", Abs(a))
DoAddDF == Apply("D+f", AddDF(a, c))
DoAddFD == Apply("f+D", AddFD(c, a))
DoSubDF == Apply("D-f", SubDF(a, c))
DoSubFD == Apply("f-D", SubFD(c, a))
DoMulDF == Apply("D*f", MulDF(a, c))
DoMulFD == Apply("f*D", MulFD(c, a))
DoMinDF == Apply("min(D,f)", MinDF(a, c))
DoMinFD == Apply("min(f,D)", MinFD(c, a))
DoMaxDF == Apply("max(D,f)", MaxDF(a, c))
DoMaxFD == Apply("max(f,D)", MaxFD(c, a))

----------------------------------------------------------------------------
(* the grid and the per-lane scratch blocks of renderable.hpp *)

\* LIBFIVE_CUDA_TILE_THREADS, lanes of one block of the tile pass (scaled)
TileThreads == 2
\* LIBFIVE_CUDA_SUBTILES_PER_TILE (scaled)
SubtilesPerTile == 2
\* LIBFIVE_CUDA_REFINE_TILES, tiles refined by one block (scaled)
RefineTiles == 1
\* LIBFIVE_CUDA_RENDER_SUBTILES, subtiles drawn by one block (scaled)
RenderSubtiles == 2
\* PixelRenderer<SUBTILE_SIZE_PX, DIMENSION> (scaled)
SubtileSizePx == 1
Dimension == 2

RECURSIVE pow(_, _)
pow(x, n) == IF n = 0 THEN 1 ELSE x * pow(x, n - 1)

pixelsPerSubtile == pow(SubtileSizePx, Dimension)

Tiles == 0..(NumTiles - 1)
Subtiles == 0..(NumTiles * SubtilesPerTile - 1)
Pixels == 0..(NumTiles * SubtilesPerTile * pixelsPerSubtile - 1)

TileOf(s) == s \div SubtilesPerTile
SubtileOf(p) == p \div pixelsPerSubtile
SubtilesIn(t) == {s \in Subtiles : TileOf(s) = t}
PixelsIn(s) == {p \in Pixels : SubtileOf(p) = s}
PixelsInTile(t) == {p \in Pixels : TileOf(SubtileOf(p)) = t}

\* The initial tape: clauses in evaluation order, the last one is the output.
CompiledTape == <<"var-x", "var-y", "min">>

\* A list of cells is kept as the set of its entries: the order of a list is
\* the order in which the lanes reach their push, and no pass reads it.  The
\* lanes of the next pass take the entries in the order of the cell index.
IndexIn(q, x) == Cardinality({y \in q : y < x})

InList(q, x) == x \in q

\* Slot of a block of Registers / ChoiceArray / ActiveArray: one block of
\* scratch per thread block, indexed by threadIdx.x inside it.
Slot_bad(lane, width) == <<lane \div width, 0>>
Slot(lane, width) == <<lane \div width, lane % width>>

TileSlot(t) == Slot(t, TileThreads)

SubtileSlot(s) ==
    Slot(IndexIn(tiles.active, TileOf(s)) * SubtilesPerTile
            + (s % SubtilesPerTile),
         SubtilesPerTile * RefineTiles)

PixelSlot(p) ==
    Slot(IndexIn(subtiles.active, SubtileOf(p)) * pixelsPerSubtile
            + (p % pixelsPerSubtile),
         pixelsPerSubtile * RenderSubtiles)

Scratch(renderer, slot, lane) ==
    {<<renderer \o ".regs", slot, lane>>,
     <<renderer \o ".choices", slot, lane>>,
     <<renderer \o ".active", slot, lane>>}

----------------------------------------------------------------------------
(* Tiles<N, 2>: the filled list, the active list and the subtapes *)

Outcomes == {"Filled", "Ambiguous", "Empty"}

EmptyLists(cells) ==
    [filled |-> {}, active |-> {}, tape |-> [x \in cells |-> 0]]

\* What check() does with a cell once its interval result is known.
Push_bad(lists, cell, outcome) ==
    CASE outcome = "Filled" ->
            [lists EXCEPT !.filled = @ \cup {cell},
                          !.active = @ \cup {cell}]
      [] outcome = "Ambiguous" ->
            [lists EXCEPT !.active = @ \cup {cell}, !.tape[cell] = 1]
      [] OTHER -> lists
Push(lists, cell, outcome) ==
    CASE outcome = "Filled" ->
            [lists EXCEPT !.filled = @ \cup {cell}]
      [] outcome = "Ambiguous" ->
            [lists EXCEPT !.active = @ \cup {cell}, !.tape[cell] = 1]
      [] OTHER -> lists

\* The list entry and subtape that Push writes, as <<array, slot, lane>>.
PushWrites(name, cell, outcome, lane) ==
    CASE outcome = "Filled" ->
            {<<name \o ".filled", cell, lane>>}
      [] outcome = "Ambiguous" ->
            {<<name \o ".active", cell, lane>>,
             <<name \o ".tape", cell, lane>>}
      [] OTHER -> {}

AfterCheck(outcome) == IF outcome = "Filled" THEN "filled" ELSE "done"

Fill_bad(img, pixels) == [p \in Pixels |-> "filled"]
Fill(img, pixels) == [p \in Pixels |-> IF p \in pixels THEN "filled" ELSE img[p]]

----------------------------------------------------------------------------
(* Renderable::run and the lanes of its three passes *)

\* The barrier between two passes: every lane of the pass has finished.
TilePassDone_bad == \E t \in Tiles : tilePc[t] = "done"
TilePassDone == \A t \in Tiles : tilePc[t] = "done"

SubtilePassDone == \A s \in Subtiles : subPc[s] \in {"off", "done"}

PixelPassDone == \A p \in Pixels : pixPc[p] \in {"off", "done"}

\* run(view) starts the frame with the tile pass, one lane per tile.
RunTiles ==
    /\ stage = "Unprocessed"
    /\ stage' = "TileEvaluator"
    /\ tilePc' = [t \in Tiles |-> "ready"]
    /\ UNCHANGED <<tape, image, tiles, subtiles, tileState, subState,
                   subPc, pixPc, writers>>
    /\ UNCHANGED dvars

\* TileRenderer::check(tile, v)
TileCheck(t, outcome) ==
    /\ tilePc[t] = "ready"
    /\ tileState' = [tileState EXCEPT ![t] = outcome]
    /\ tiles' = Push(tiles, t, outcome)
    /\ writers' = writers
            \cup Scratch("tile", TileSlot(t), <<"TileRenderer::check", t>>)
            \cup PushWrites("tiles", t, outcome,
                            <<"TileRenderer::check", t>>)
    /\ tilePc' = [tilePc EXCEPT ![t] = AfterCheck(outcome)]
    /\ UNCHANGED <<stage, tape, image, subtiles, subState, subPc, pixPc>>
    /\ UNCHANGED dvars

\* TileRenderer::drawFilled(tile)
TileDrawFilled(t) ==
    /\ tilePc[t] = "filled"
    /\ InList(tiles.filled, t)
    /\ image' = Fill(image, PixelsInTile(t))
    /\ writers' = writers
            \cup {<<"image", p, <<"TileRenderer::drawFilled", t>>>> :
                     p \in PixelsInTile(t)}
    /\ tilePc' = [tilePc EXCEPT ![t] = "done"]
    /\ UNCHANGED <<stage, tape, tiles, subtiles, tileState, subState,
                   subPc, pixPc>>
    /\ UNCHANGED dvars

\* run: the subtile pass, one lane per subtile of every active tile.
RunSubtiles ==
    /\ stage = "TileEvaluator"
    /\ TilePassDone
    /\ stage' = "SubtileEvaluator"
    /\ subPc' = [s \in Subtiles |->
                    IF InList(tiles.active, TileOf(s)) THEN "ready" ELSE "off"]
    /\ UNCHANGED <<tape, image, tiles, subtiles, tileState, subState,
                   tilePc, pixPc, writers>>
    /\ UNCHANGED dvars

\* SubtileRenderer::check(subtile, tile, v), with buildTape(subtile, tile)
SubtileCheck(s, outcome) ==
    /\ subPc[s] = "ready"
    /\ subState' = [subState EXCEPT ![s] = outcome]
    /\ subtiles' = Push(subtiles, s, outcome)
    /\ writers' = writers
            \cup Scratch("subtile", SubtileSlot(s),
                         <<"SubtileRenderer::check", s>>)
            \cup PushWrites("subtiles", s, outcome,
                            <<"SubtileRenderer::check", s>>)
    /\ subPc' = [subPc EXCEPT ![s] = AfterCheck(outcome)]
    /\ UNCHANGED <<stage, tape, image, tiles, tileState, tilePc, pixPc>>
    /\ UNCHANGED dvars

\* SubtileRenderer::drawFilled(subtile)
SubtileDrawFilled(s) ==
    /\ subPc[s] = "filled"
    /\ InList(subtiles.filled, s)
    /\ image' = Fill(image, PixelsIn(s))
    /\ writers' = writers
            \cup {<<"image", p, <<"SubtileRenderer::drawFilled", s>>>> :
                     p \in PixelsIn(s)}
    /\ subPc' = [subPc EXCEPT ![s] = "done"]
    /\ UNCHANGED <<stage, tape, tiles, subtiles, tileState, subState,
                   tilePc, pixPc>>
    /\ UNCHANGED dvars

\* run: the pixel pass, one lane per pixel of every active subtile.
RunPixels ==
    /\ stage = "SubtileEvaluator"
    /\ SubtilePassDone
    /\ stage' = "PixelEvaluator"
    /\ pixPc' = [p \in Pixels |->
                    IF InList(subtiles.active, SubtileOf(p))
                    THEN "ready" ELSE "off"]
    /\ UNCHANGED <<tape, image, tiles, subtiles, tileState, subState,
                   tilePc, subPc, writers>>
    /\ UNCHANGED dvars

\* PixelRenderer::draw(subtile, v), the lane of one pixel; inside says
\* whether the field value at the pixel is <= 0.
PixelDraw(p, inside) ==
    /\ pixPc[p] = "ready"
    /\ image' = IF inside THEN Fill(image, {p}) ELSE image
    /\ writers' = writers
            \cup {<<"pixel.regs", PixelSlot(p), <<"PixelRenderer::draw", p>>>>}
            \cup (IF inside
                  THEN {<<"image", p, <<"PixelRenderer::draw", p>>>>}
                  ELSE {})
    /\ pixPc' = [pixPc EXCEPT ![p] = "done"]
    /\ UNCHANGED <<stage, tape, tiles, subtiles, tileState, subState,
                   tilePc, subPc>>
    /\ UNCHANGED dvars

\* run returns: the frame is complete.
RunReturn ==
    /\ stage = "PixelEvaluator"
    /\ PixelPassDone
    /\ stage' = "FrameComplete"
    /\ UNCHANGED <<tape, image, tiles, subtiles, tileState, subState,
                   tilePc, subPc, pixPc, writers>>
    /\ UNCHANGED dvars

----------------------------------------------------------------------------
(* specifications *)

PipeInit ==
    /\ stage = "Unprocessed"
    /\ tape = CompiledTape
    /\ image = [p \in Pixels |-> "unset"]
    /\ tiles = EmptyLists(Tiles)
    /\ subtiles = EmptyLists(Subtiles)
    /\ tileState = [t \in Tiles |-> "Unprocessed"]
    /\ subState = [s \in Subtiles |-> "Unprocessed"]
    /\ tilePc = [t \in Tiles |-> "off"]
    /\ subPc = [s \in Subtiles |-> "off"]
    /\ pixPc = [p \in Pixels |-> "off"]
    /\ writers = {}

DerivIdle ==
    /\ a = DerivDefault
    /\ b = DerivDefault
    /\ c = 0
    /\ op = "none"
    /\ res = DerivDefault

\* One frame of the renderer.
Init == PipeInit /\ DerivIdle

Next ==
    \/ RunTiles
    \/ \E t \in Tiles, o \in Outcomes : TileCheck(t, o)
    \/ \E t \in Tiles : TileDrawFilled(t)
    \/ RunSubtiles
    \/ \E s \in Subtiles, o \in Outcomes : SubtileCheck(s, o)
    \/ \E s \in Subtiles : SubtileDrawFilled(s)
    \/ RunPixels
    \/ \E p \in Pixels, inside \in BOOLEAN : PixelDraw(p, inside)
    \/ RunReturn

Spec == Init /\ [][Next]_vars

\* The Deriv/Deriv overloads on every pair of operands.
InitDD ==
    /\ PipeInit
    /\ a \in Derivs
    /\ b \in Derivs
    /\ c = 0
    /\ op = "none"
    /\ res = DerivDefault

NextDD ==
    \/ DoMulDD
    \/ DoDivDD
    \/ DoMinDD
    \/ DoMaxDD
    \/ DoMinPlusMax

SpecDD == InitDD /\ [][NextDD]_vars

\* The constructors, abs and the mixed float/Deriv overloads.
InitDF ==
    /\ PipeInit
    /\ a \in Derivs
    /\ b = DerivDefault
    /\ c \in Floats
    /\ op = "none"
    /\ res = DerivDefault

NextDF ==
    \/ DoDefault
    \/ DoDerivF
    \/ DoAbs
    \/ DoAddDF
    \/ DoAddFD
    \/ DoSubDF
    \/ DoSubFD
    \/ DoMulDF
    \/ DoMulFD
    \/ DoMinDF
    \/ DoMinFD
    \/ DoMaxDF
    \/ DoMaxFD

SpecDF == InitDF /\ [][NextDF]_vars

----------------------------------------------------------------------------
(* properties of the frame *)

LanesDone(pc, cells) == \A x \in cells : pc[x] \in {"off", "done"}

C2_CheckOutcome ==
    /\ tiles.filled \cap tiles.active = {}
    /\ \A t \in Tiles :
        /\ tilePc[t] \in {"filled", "done"} => tileState[t] \in Outcomes
        /\ tileState[t] = "Filled"
             => t \in tiles.filled /\ t \notin tiles.active
                  /\ tiles.tape[t] = 0
        /\ tileState[t] = "Ambiguous"
             => t \in tiles.active /\ t \notin tiles.filled
                  /\ tiles.tape[t] = 1
        /\ tileState[t] = "Empty"
             => t \notin tiles.filled /\ t \notin tiles.active
                  /\ tiles.tape[t] = 0
                  /\ \A p \in PixelsInTile(t) : image[p] = "unset"
        /\ tileState[t] = "Unprocessed"
             => t \notin tiles.filled /\ t \notin tiles.active

C2_Witness ==
    /\ stage = "FrameComplete"
    /\ \E t, u \in Tiles :
          tileState[t] = "Filled" /\ tileState[u] = "Ambiguous"
    /\ \E s \in Subtiles : subState[s] = "Empty"

\* C3: no cell and no scratch slot of the Registers, ChoiceArray and
\* ActiveArray blocks is written by two lanes, and the tape stays as it was
\* compiled.
C3_OneWriter ==
    /\ \A w1, w2 \in writers :
          (w1[1] = w2[1] /\ w1[2] = w2[2]) => w1[3] = w2[3]
    /\ tape = CompiledTape

C3_Witness ==
    /\ \E w1, w2 \in writers :
          w1[1] = "tile.regs" /\ w2[1] = "tile.regs" /\ w1[3] # w2[3]
    /\ \E w1, w2 \in writers :
          w1[1] = "subtile.choices" /\ w2[1] = "subtile.choices"
            /\ w1[3] # w2[3]
    /\ \E w1, w2 \in writers :
          w1[1] = "image" /\ w2[1] = "image" /\ w1[3] # w2[3]

Changed == {p \in Pixels : image'[p] # image[p]}

----------------------------------------------------------------------------
(* properties of Deriv *)

ScalarMin(x, y) == IF x < y THEN x ELSE y
ScalarMax(x, y) == IF x > y THEN x ELSE y

Const(f) == [x |-> 0, y |-> 0, z |-> 0, w |-> f]

\* C5: min(a, b) and max(a, b) return one of the operands whole; its value
\* is the scalar minimum (maximum) of the two values, and it is the operand
\* whose value wins the comparison.
C5_MinMaxSelect ==
    /\ op = "min" =>
          /\ res \in {a, b}
          /\ res.w = ScalarMin(a.w, b.w)
          /\ a.w < b.w => res = a
          /\ b.w < a.w => res = b
    /\ op = "max" =>
          /\ res \in {a, b}
          /\ res.w = ScalarMax(a.w, b.w)
          /\ a.w > b.w => res = a
          /\ b.w > a.w => res = b

C5_Witness ==
    /\ op = "min"
    /\ b.w < a.w
    /\ a.x # b.x
    /\ a.z # b.z
    /\ res = b

RatOf(q, n, d) == q.den > 0 /\ q.num * d = n * q.den

\* C6: a * b has value a.value * b.value and partial a.d * b.value +
\* b.d * a.value on each axis; a / b has value a.value / b.value and partial
\* (b.value * a.d - a.value * b.d) / b.value^2 on each axis (not finite when
\* b.value = 0).
C6_ProductQuotientRule ==
    /\ op = "mul" =>
          /\ res.w = a.w * b.w
          /\ res.x = a.x * b.w + b.x * a.w
          /\ res.y = a.y * b.w + b.y * a.w
          /\ res.z = a.z * b.w + b.z * a.w
    /\ (op = "div" /\ b.w # 0) =>
          /\ RatOf(res.w, a.w, b.w)
          /\ RatOf(res.x, b.w * a.x - a.w * b.x, b.w * b.w)
          /\ RatOf(res.y, b.w * a.y - a.w * b.y, b.w * b.w)
          /\ RatOf(res.z, b.w * a.z - a.w * b.z, b.w * b.w)
    /\ (op = "div" /\ b.w = 0) =>
          /\ res.w.den = 0 /\ res.x.den = 0 /\ res.y.den = 0 /\ res.z.den = 0
          /\ res.w.num = Sgn(a.w)
          /\ res.x.num = Sgn(0 - a.w * b.x)
          /\ res.y.num = Sgn(0 - a.w * b.y)
          /\ res.z.num = Sgn(0 - a.w * b.z)

C6_Witness ==
    /\ op = "div"
    /\ b.w = 0 - 2
    /\ a.w = 1
    /\ a.x = 1
    /\ b.x = 1
    /\ res.x = [num |-> 0 - 3, den |-> 4]

\* C7: abs(a) has a value >= 0; it is a itself when a.value >= 0, zero
\* included, and a with all four components negated when a.value < 0.
C7_AbsRule ==
    op = "abs" =>
        /\ res.w >= 0
        /\ a.w >= 0 => res = a
        /\ a.w < 0 =>
              /\ res.w = 0 - a.w
              /\ res.x = 0 - a.x
              /\ res.y = 0 - a.y
              /\ res.z = 0 - a.z

C7_Witness ==
    /\ op = "abs"
    /\ a.w = 0
    /\ a.x # 0
    /\ res = a

\* C8: Deriv(f) is (f, 0, 0, 0) and Deriv() is all zero; adding or
\* subtracting a float leaves the partials of the Dual as they are, float -
\* Dual negates them; min and max of a Dual and a float return the Dual or
\* the float with zero partials.
C8_ConstantsZeroDerivative ==
    /\ op = "Deriv(f)" => res = Const(c)
    /\ op = "Deriv()" => res = Const(0)
    /\ op \in {"D+f", "f+D"} =>
          res = [x |-> a.x, y |-> a.y, z |-> a.z, w |-> a.w + c]
    /\ op = "D-f" =>
          res = [x |-> a.x, y |-> a.y, z |-> a.z, w |-> a.w - c]
    /\ op = "f-D" =>
          res = [x |-> 0 - a.x, y |-> 0 - a.y, z |-> 0 - a.z, w |-> c - a.w]
    /\ op \in {"min(D,f)", "min(f,D)"} =>
          /\ res = a \/ res = Const(c)
          /\ c < a.w => res = Const(c)
          /\ res.w = ScalarMin(a.w, c)
    /\ op \in {"max(D,f)", "max(f,D)"} =>
          /\ res = a \/ res = Const(c)
          /\ c > a.w => res = Const(c)
          /\ res.w = ScalarMax(a.w, c)

C8_Witness ==
    /\ op = "min(D,f)"
    /\ c < a.w
    /\ a.x # 0
    /\ res.x = 0
    /\ res.w = c

\* C9: min(a, b) + max(a, b) is a + b in the value and in the three
\* partials, ties included.
C9_MinPlusMax ==
    op = "min+max" =>
        /\ res.w = a.w + b.w
        /\ res.x = a.x + b.x
        /\ res.y = a.y + b.y
        /\ res.z = a.z + b.z

C9_Witness ==
    /\ op = "min+max"
    /\ a.w = b.w
    /\ a.x # b.x
    /\ res.x = a.x + b.x

\* The mixed overloads that agree with the promoted call in every case.
PromotedAlways ==
    /\ op = "D+f" => res = AddDD(a, DerivF(c))
    /\ op = "f+D" => res = AddDD(DerivF(c), a)
    /\ op = "D-f" => res = SubDD(a, DerivF(c))
    /\ op = "f-D" => res = SubDD(DerivF(c), a)
    /\ op = "D*f" => res = MulDD(a, DerivF(c))
    /\ op = "f*D" => res = MulDD(DerivF(c), a)
    /\ op = "min(D,f)" => res = MinDD(a, DerivF(c))
    /\ op = "max(D,f)" => res = MaxDD(a, DerivF(c))

\* C10 as claimed: every mixed overload returns what the Deriv/Deriv
\* operator returns on Deriv(c) and a in the same order.
C10_MixedEqualsPromoted ==
    /\ PromotedAlways
    /\ op = "min(f,D)" => res = MinDD(DerivF(c), a)
    /\ op = "max(f,D)" => res = MaxDD(DerivF(c), a)

\* C10, amended: so do +, -, * in either order and min, max with the Dual
\* first; min(c, a) and max(c, a) do when c # a.value, and at c = a.value
\* they return what the Deriv/Deriv operator returns with the operands
\* swapped, which has the same value but the partials of the other operand.
C10_MixedPromotedButTies ==
    /\ PromotedAlways
    /\ (op = "min(f,D)" /\ c # a.w) => res = MinDD(DerivF(c), a)
    /\ (op = "max(f,D)" /\ c # a.w) => res = MaxDD(DerivF(c), a)
    /\ (op = "min(f,D)" /\ c = a.w) =>
          /\ res = MinDD(a, DerivF(c))
          /\ res.w = MinDD(DerivF(c), a).w
    /\ (op = "max(f,D)" /\ c = a.w) =>
          /\ res = MaxDD(a, DerivF(c))
          /\ res.w = MaxDD(DerivF(c), a).w

C10_Witness ==
    /\ op = "min(f,D)"
    /\ c = a.w
    /\ a.x # 0
    /\ res = Const(c)
    /\ MinDD(DerivF(c), a) = a

====
